---------------------------- MODULE Spec2Model ----------------------------
(***************************************************************************)
(* A model of the `wad` crate of rdoom: the bounds-checked cursor          *)
(* (LumpParser), the 8-byte name type (WadString), the lump decoders       *)
(* (ColormapLump, PnamesLump, TexturesLump) and the container (Wad::new,   *)
(* WadDirectoryEntry::read_lump).                                          *)
(*                                                                         *)
(* Bytes are integers 0..255 and byte buffers are sequences of them.  A    *)
(* Rust Result is a record with a field `tag` that is "Ok", "Err" or, when *)
(* the code unwinds instead of returning, "Panic".                         *)
(***************************************************************************)
EXTENDS Integers, Sequences, FiniteSets, TLC

VARIABLES
    remaining,  \* LumpParser.remaining: the unread bytes of the cursor
    finished,   \* TRUE once finish() has consumed the parser
    failed,     \* history: some read of this parser has returned Err
    last,       \* history: the last operation applied to the parser
    bytes,      \* the 8 bytes handed to WadString::new
    wad_str,    \* the Result of WadString::new(bytes)
    rendered,   \* the outcome of Display::fmt on the constructed WadString
    data,       \* the lump buffer handed to a decoder
    result,     \* the Result of the decoder
    file,       \* the bytes of the backing storage
    filepos,    \* the position of the shared file handle
    wad,        \* the Result of Wad::new(file)
    calls,      \* the read_lump calls in flight, one per caller
    sync,       \* TRUE when the callers serialise read_lump externally
    lock        \* the caller inside a serialised read_lump, or 0

vars == <<remaining, finished, failed, last, bytes, wad_str, rendered,
          data, result, file, filepos, wad, calls, sync, lock>>

parserVars == <<remaining, finished, failed, last>>
stringVars == <<bytes, wad_str, rendered>>
lumpVars   == <<data, result>>
wadVars    == <<file, filepos, wad, calls, sync, lock>>

----------------------------------------------------------------------------
(* Bounds of the model *)

MaxLen == 5          \* longest buffer handed to a LumpParser
MaxRead == 6         \* largest n of read_slice(n)

----------------------------------------------------------------------------
(* Generic helpers *)

Max(a, b) == IF a >= b THEN a ELSE b
Min(a, b) == IF a <= b THEN a ELSE b

\* data[from..] of a sequence, `from` counted from 0
Suffix(s, from) == SubSeq(s, from + 1, Len(s))

\* all sequences over S of length at most n
SeqsUpTo(S, n) == UNION {[1..k -> S] : k \in 0..n}

None == [tag |-> "None"]
Err == [tag |-> "Err"]
Panic == [tag |-> "Panic"]
Ok(v) == [tag |-> "Ok", value |-> v]

\* i16::from_le_bytes: two's complement of the 2 bytes, low byte first
i16_from_le_bytes(b) ==
    IF b[2] >= 128 THEN b[1] + 256 * (b[2] - 256) ELSE b[1] + 256 * b[2]

\* i32::from_le_bytes: two's complement of the 4 bytes, low byte first
i32_from_le_bytes(b) ==
    LET low == b[1] + 256 * b[2] + 65536 * b[3]
    IN  IF b[4] >= 128 THEN low + 16777216 * (b[4] - 256)
        ELSE low + 16777216 * b[4]

----------------------------------------------------------------------------
(* LumpParser (lump_parser.rs).  Each operation is an operator from the    *)
(* cursor's remaining bytes to [res: the Result, rest: the new remaining]. *)

LumpParser_new(d) == d

\* a plausible slip: a failed read leaves the cursor where it was
read_slice_keeps_position(rem, n) ==
    IF n <= Len(rem)
    THEN [res |-> Ok(SubSeq(rem, 1, n)), rest |-> Suffix(rem, n)]
    ELSE [res |-> Err, rest |-> rem]

\* split_at_checked(n) is None exactly when n > len
read_slice(rem, n) ==
    IF n <= Len(rem)
    THEN [res |-> Ok(SubSeq(rem, 1, n)), rest |-> Suffix(rem, n)]
    ELSE [res |-> Err, rest |-> <<>>]

\* slice.try_into().unwrap() after `?`: the N bytes of the slice as an array
\* of N; the Err of the read is returned as it is
try_into(r) ==
    IF r.res.tag = "Ok" THEN [res |-> Ok(r.res.value), rest |-> r.rest]
    ELSE [res |-> Err, rest |-> r.rest]

read_chunk(rem, N) == try_into(read_slice(rem, N))

\* Ok(i16::from_le_bytes(bytes)) after `?`
i16_of(r) ==
    IF r.res.tag = "Ok"
    THEN [res |-> Ok(i16_from_le_bytes(r.res.value)), rest |-> r.rest]
    ELSE [res |-> Err, rest |-> r.rest]

read_i16(rem) == i16_of(read_chunk(rem, 2))

\* Ok(i32::from_le_bytes(bytes)) after `?`
i32_of(r) ==
    IF r.res.tag = "Ok"
    THEN [res |-> Ok(i32_from_le_bytes(r.res.value)), rest |-> r.rest]
    ELSE [res |-> Err, rest |-> r.rest]

read_i32(rem) == i32_of(read_chunk(rem, 4))

has_data_left(rem) == rem # <<>>

finish(rem) == IF has_data_left(rem) THEN Err ELSE Ok(<<>>)


----------------------------------------------------------------------------
(* The cursor as a state machine: a parser over a bounded buffer, driven   *)
(* by an arbitrary sequence of reads, then consumed by finish().           *)

ByteSamples == {0, 1, 127, 128, 255}
ChunkSizes == {1, 2, 3, 8}

IdleParser ==
    /\ remaining = <<>>
    /\ finished = FALSE
    /\ failed = FALSE
    /\ last = [op |-> "none", n |-> 0, avail |-> 0, res |-> None]

IdleString ==
    /\ bytes = <<>>
    /\ wad_str = None
    /\ rendered = None

IdleLump ==
    /\ data = <<>>
    /\ result = None

IdleWad ==
    /\ file = <<>>
    /\ filepos = 0
    /\ wad = None
    /\ calls = <<>>
    /\ sync = FALSE
    /\ lock = 0

\* the bookkeeping common to the four reads
Read(op, n, r) ==
    /\ ~finished
    /\ remaining' = r.rest
    /\ failed' = (failed \/ r.res.tag = "Err")
    /\ last' = [op |-> op, n |-> n, avail |-> Len(remaining), res |-> r.res]
    /\ UNCHANGED <<finished, stringVars, lumpVars, wadVars>>

ReadSlice == \E n \in 0..MaxRead : Read("read_slice", n, read_slice(remaining, n))

ReadChunk == \E N \in ChunkSizes : Read("read_chunk", N, read_chunk(remaining, N))

ReadI16 == Read("read_i16", 2, read_i16(remaining))

ReadI32 == Read("read_i32", 4, read_i32(remaining))

HasDataLeft ==
    /\ ~finished
    /\ last' = [op |-> "has_data_left", n |-> 0, avail |-> Len(remaining),
                res |-> Ok(has_data_left(remaining))]
    /\ UNCHANGED <<remaining, finished, failed, stringVars, lumpVars, wadVars>>

Finish ==
    /\ ~finished
    /\ finished' = TRUE
    /\ last' = [op |-> "finish", n |-> 0, avail |-> Len(remaining),
                res |-> finish(remaining)]
    /\ UNCHANGED <<remaining, failed, stringVars, lumpVars, wadVars>>

InitParser ==
    /\ remaining \in {LumpParser_new(d) : d \in SeqsUpTo(ByteSamples, MaxLen)}
    /\ finished = FALSE
    /\ failed = FALSE
    /\ last = [op |-> "new", n |-> 0, avail |-> Len(remaining), res |-> None]
    /\ IdleString /\ IdleLump /\ IdleWad

NextParser ==
    \/ ReadSlice
    \/ ReadChunk
    \/ ReadI16
    \/ ReadI32
    \/ HasDataLeft
    \/ Finish

SpecParser == InitParser /\ [][NextParser]_vars

ReadOps == {"read_slice", "read_chunk", "read_i16", "read_i32"}

\* C4: a read of n bytes succeeds exactly when at least n bytes remained
\* before it, and once any read has failed the cursor is exhausted:
\* has_data_left() is false, finish() succeeds (now, and when it is the
\* operation applied), and every read of 1 or more bytes fails.
C4_FailedReadExhausts ==
    /\ last.op \in ReadOps => (last.res.tag = "Ok" <=> last.n <= last.avail)
    /\ failed =>
        /\ ~has_data_left(remaining)
        /\ finish(remaining).tag = "Ok"
        /\ last.op = "finish" => last.res.tag = "Ok"
        /\ last.op = "has_data_left" => last.res = Ok(FALSE)
        /\ \A n \in 1..MaxRead : read_slice(remaining, n).res.tag = "Err"
        /\ \A N \in ChunkSizes : read_chunk(remaining, N).res.tag = "Err"
        /\ read_i16(remaining).res.tag = "Err"
        /\ read_i32(remaining).res.tag = "Err"

\* a read that failed while bytes were still unread
C4_Witness ==
    /\ last.op = "read_i32"
    /\ last.res.tag = "Err"
    /\ last.avail > 0
    /\ remaining = <<>>

----------------------------------------------------------------------------
(* WadString (lib.rs): 8 ASCII bytes, right-padded with zero bytes.        *)

WadString_SIZE_BYTES == 8

\* a plausible slip: the ASCII check compares against the wrong limit
WadString_new_off_by_one(b) ==
    IF \E i \in 1..Len(b) : b[i] > 128 THEN Err ELSE Ok([bytes |-> b])

\* bytes.iter().any(|byte| *byte > 127)
WadString_new(b) ==
    IF \E i \in 1..Len(b) : b[i] > 127 THEN Err ELSE Ok([bytes |-> b])

\* lumps.rs calls WadString::from_bytes, which lib.rs does not define; per
\* the specification (4.2) it is the checked constructor.
WadString_from_bytes(b) == WadString_new(b)

\* map_while over the bytes from index i on: a zero byte ends the string, a
\* byte in 1..=127 is kept, any other byte panics.
RECURSIVE map_while(_, _)
map_while(b, i) ==
    IF i > Len(b) THEN Ok(<<>>)
    ELSE IF b[i] = 0 THEN Ok(<<>>)
    ELSE IF b[i] \in 1..127
         THEN LET tail == map_while(b, i + 1)
              IN  IF tail.tag = "Ok" THEN Ok(<<b[i]>> \o tail.value) ELSE Panic
    ELSE Panic

\* <WadString as Display>::fmt: the collected characters, as their codes
WadString_fmt(w) == map_while(w.bytes, 1)

NameByteSamples == {0, 65, 127, 128}

WadStringNew ==
    /\ wad_str = None
    /\ wad_str' = WadString_new(bytes)
    /\ UNCHANGED <<bytes, rendered, parserVars, lumpVars, wadVars>>

WadStringDisplay ==
    /\ wad_str.tag = "Ok"
    /\ rendered = None
    /\ rendered' = WadString_fmt(wad_str.value)
    /\ UNCHANGED <<bytes, wad_str, parserVars, lumpVars, wadVars>>

InitString ==
    /\ bytes \in [1..WadString_SIZE_BYTES -> NameByteSamples]
    /\ wad_str = None
    /\ rendered = None
    /\ IdleParser /\ IdleLump /\ IdleWad

NextString ==
    \/ WadStringNew
    \/ WadStringDisplay

SpecString == InitString /\ [][NextString]_vars

\* C9: WadString::new fails exactly when one of the 8 bytes is > 127 and
\* otherwise keeps the bytes; rendering a constructed WadString never
\* panics and yields the bytes before the first zero byte, or all 8 when
\* none is zero.
C9_ConstructedRendersPrefix ==
    /\ wad_str # None =>
        /\ wad_str.tag = "Err" <=> \E i \in 1..WadString_SIZE_BYTES : bytes[i] > 127
        /\ wad_str.tag = "Ok" => wad_str.value.bytes = bytes
    /\ rendered # None =>
        /\ rendered.tag = "Ok"
        /\ LET k == Len(rendered.value)
           IN  /\ k <= WadString_SIZE_BYTES
               /\ rendered.value = SubSeq(bytes, 1, k)
               /\ \A i \in 1..k : bytes[i] # 0
               /\ k < WadString_SIZE_BYTES => bytes[k + 1] = 0

\* a name with a zero byte in the middle and a non-zero byte after it
C9_Witness ==
    /\ rendered.tag = "Ok"
    /\ rendered.value = <<65, 127>>
    /\ bytes[3] = 0
    /\ bytes[4] = 65

----------------------------------------------------------------------------
(* Lump decoders (lumps.rs).  `(0..count).map(read).collect::<Result<_>>()` *)
(* reads `count` items in order and stops at the first Err; a count that   *)
(* is zero or negative is an empty range.                                  *)

Palette_NUM_COLORS == 256
ColormapLump_NUM_MAPS == 34

\* The `count` reads of a collect are taken as the first count \div 2 reads
\* followed by the others, which is the same sequence of reads and keeps
\* the depth of the evaluation logarithmic in count.

\* collect::<Result<Vec<_>, _>>() of one read: its item, or its Err
single(r) ==
    IF r.res.tag = "Err" THEN r
    ELSE [res |-> Ok(<<r.res.value>>), rest |-> r.rest]

\* collect::<Result<Vec<_>, _>>(): `items` in front of the items read after
\* them, or the Err met while reading those
collect(items, more) ==
    IF more.res.tag = "Err" THEN more
    ELSE [res |-> Ok(items \o more.res.value), rest |-> more.rest]

\* count chunks of N bytes each: [res: Ok(the chunks) or Err, rest]
RECURSIVE read_chunks(_, _, _)
then_chunks(first, count, N) ==
    IF first.res.tag = "Err" THEN first
    ELSE collect(first.res.value, read_chunks(first.rest, count, N))

read_chunks(rem, count, N) ==
    IF count <= 0 THEN [res |-> Ok(<<>>), rest |-> rem]
    ELSE IF count = 1 THEN single(read_chunk(rem, N))
    ELSE then_chunks(read_chunks(rem, count \div 2, N),
                     count - count \div 2, N)

\* a plausible slip: the decoder forgets parser.finish()
ColormapLump_parse_lenient(d) ==
    LET maps == read_chunks(LumpParser_new(d), ColormapLump_NUM_MAPS,
                            Palette_NUM_COLORS)
    IN  IF maps.res.tag = "Err" THEN Err
        ELSE Ok([maps |-> maps.res.value])

ColormapLump_parse(d) ==
    LET maps == read_chunks(LumpParser_new(d), ColormapLump_NUM_MAPS,
                            Palette_NUM_COLORS)
    IN  IF maps.res.tag = "Err" THEN Err
        ELSE IF finish(maps.rest).tag = "Err" THEN Err
        ELSE IF Len(maps.res.value) # ColormapLump_NUM_MAPS THEN Panic
        ELSE Ok([maps |-> maps.res.value])

\* WadString::from_bytes(chunk?): the Err of the read, or the checked name
checked_name(r) ==
    IF r.res.tag = "Err" THEN r
    ELSE [res |-> WadString_from_bytes(r.res.value), rest |-> r.rest]

read_name(rem) == checked_name(read_chunk(rem, WadString_SIZE_BYTES))

\* count names of 8 bytes each, every one through WadString::from_bytes
RECURSIVE read_names(_, _)
then_names(first, count) ==
    IF first.res.tag = "Err" THEN first
    ELSE collect(first.res.value, read_names(first.rest, count))

read_names(rem, count) ==
    IF count <= 0 THEN [res |-> Ok(<<>>), rest |-> rem]
    ELSE IF count = 1 THEN single(read_name(rem))
    ELSE then_names(read_names(rem, count \div 2), count - count \div 2)

\* a plausible slip: the decoder forgets parser.finish()
PnamesLump_parse_lenient(d) ==
    LET num_patches == read_i32(LumpParser_new(d))
    IN  IF num_patches.res.tag = "Err" THEN Err
        ELSE LET pnames == read_names(num_patches.rest, num_patches.res.value)
             IN  IF pnames.res.tag = "Err" THEN Err
                 ELSE Ok([pnames |-> pnames.res.value])

PnamesLump_parse(d) ==
    LET num_patches == read_i32(LumpParser_new(d))
    IN  IF num_patches.res.tag = "Err" THEN Err
        ELSE LET pnames == read_names(num_patches.rest, num_patches.res.value)
             IN  IF pnames.res.tag = "Err" THEN Err
                 ELSE IF finish(pnames.rest).tag = "Err" THEN Err
                 ELSE Ok([pnames |-> pnames.res.value])

Patch_NUM_BYTES == 10

\* the 5 little-endian i16 fields of a patch record
Patch_from_bytes(b) ==
    [x_offset    |-> i16_from_le_bytes(SubSeq(b, 1, 2)),
     y_offset    |-> i16_from_le_bytes(SubSeq(b, 3, 4)),
     pname_index |-> i16_from_le_bytes(SubSeq(b, 5, 6)),
     stepdir     |-> i16_from_le_bytes(SubSeq(b, 7, 8)),
     colormap    |-> i16_from_le_bytes(SubSeq(b, 9, 10))]

\* let bytes = parser.read_chunk::<10>()?; Ok(Patch::from_bytes(&bytes))
patch_of(r) ==
    IF r.res.tag = "Ok"
    THEN [res |-> Ok(Patch_from_bytes(r.res.value)), rest |-> r.rest]
    ELSE [res |-> Err, rest |-> r.rest]

read_patch(rem) == patch_of(read_chunk(rem, Patch_NUM_BYTES))

\* count patches of 10 bytes each
RECURSIVE read_patches(_, _)
then_patches(first, count) ==
    IF first.res.tag = "Err" THEN first
    ELSE collect(first.res.value, read_patches(first.rest, count))

read_patches(rem, count) ==
    IF count <= 0 THEN [res |-> Ok(<<>>), rest |-> rem]
    ELSE IF count = 1 THEN single(read_patch(rem))
    ELSE then_patches(read_patches(rem, count \div 2), count - count \div 2)

\* the value of a read joins the fields read before it; its Err replaces them
push_field(fields, r) ==
    IF r.res.tag = "Err" THEN r
    ELSE [res |-> Ok(Append(fields, r.res.value)), rest |-> r.rest]

\* `let field = read()?;` after the fields st read so far: nothing is read
\* once a `?` has returned
field_name(st) ==
    IF st.res.tag = "Err" THEN st ELSE push_field(st.res.value, read_name(st.rest))

field_i16(st) ==
    IF st.res.tag = "Err" THEN st ELSE push_field(st.res.value, read_i16(st.rest))

field_i32(st) ==
    IF st.res.tag = "Err" THEN st ELSE push_field(st.res.value, read_i32(st.rest))

\* the six fields before the patches, read one after the other:
\* [res: Ok(<<name, masked, tex_width, tex_height, columndirectory,
\* num_patches>>) or Err, rest]
TexEntry_header(d) ==
    LET parser          == [res |-> Ok(<<>>), rest |-> LumpParser_new(d)]
        name            == field_name(parser)
        masked          == field_i32(name)
        tex_width       == field_i16(masked)
        tex_height      == field_i16(tex_width)
        columndirectory == field_i32(tex_height)
        num_patches     == field_i16(columndirectory)
    IN  num_patches

\* the record: the six header fields and the patches
TexEntry(h, patches) ==
    [name            |-> h[1],
     masked          |-> h[2],
     tex_width       |-> h[3],
     tex_height      |-> h[4],
     columndirectory |-> h[5],
     num_patches     |-> h[6],
     patches         |-> patches]

\* collect()? on the patches, then Ok(Self { .. })
TexEntry_collected(h, patches) ==
    IF patches.res.tag = "Err" THEN Err ELSE Ok(TexEntry(h, patches.res.value))

\* a plausible slip: the inclusive range 0..=num_patches
TexEntry_patches_inclusive(h) ==
    IF h.res.tag = "Err" THEN Err
    ELSE TexEntry_collected(h.res.value,
                            read_patches(h.rest, h.res.value[6] + 1))

TexEntry_parse_inclusive(d) == TexEntry_patches_inclusive(TexEntry_header(d))

\* (0..num_patches) patches follow the header
TexEntry_patches(h) ==
    IF h.res.tag = "Err" THEN Err
    ELSE TexEntry_collected(h.res.value, read_patches(h.rest, h.res.value[6]))

\* textures::TexEntry::parse; finish() is intentionally not called
TexEntry_parse(d) == TexEntry_patches(TexEntry_header(d))

\* count i32 values
RECURSIVE read_offsets(_, _)
then_offsets(first, count) ==
    IF first.res.tag = "Err" THEN first
    ELSE collect(first.res.value, read_offsets(first.rest, count))

read_offsets(rem, count) ==
    IF count <= 0 THEN [res |-> Ok(<<>>), rest |-> rem]
    ELSE IF count = 1 THEN single(read_i32(rem))
    ELSE then_offsets(read_offsets(rem, count \div 2), count - count \div 2)

\* &data[(offset as usize)..]: `as usize` turns a negative i32 into a value
\* of at least 2^64 - 2^31, which is past the end of every buffer, and a
\* range that starts past the end panics.  An offset equal to the length is
\* the empty slice.
slice_from(d, offset) ==
    IF offset < 0 \/ offset > Len(d) THEN Panic ELSE Ok(Suffix(d, offset))

\* collect() over parsed entries: `entry` in front of the entries after it,
\* or the Err or panic met while parsing those
collect_entry(entry, more) ==
    IF more.tag = "Ok" THEN Ok(<<entry>> \o more.value) ELSE more

\* offsets.iter().map(|offset| TexEntry::parse(&data[offset..])).collect():
\* the entries in table order, stopping at the first Err; a panic unwinds
RECURSIVE parse_entries(_, _, _)
then_entries(d, offsets, i, entry) ==
    IF entry.tag = "Err" THEN Err
    ELSE collect_entry(entry.value, parse_entries(d, offsets, i + 1))

parse_slice(d, offsets, i, slice) ==
    IF slice.tag = "Panic" THEN Panic
    ELSE then_entries(d, offsets, i, TexEntry_parse(slice.value))

parse_entries(d, offsets, i) ==
    IF i > Len(offsets) THEN Ok(<<>>)
    ELSE parse_slice(d, offsets, i, slice_from(d, offsets[i]))

\* a plausible slip: one cursor that advances through the records, as if
\* they were contiguous and in table order
RECURSIVE parse_contiguous(_, _)
then_contiguous(rem, count, entry) ==
    IF entry.tag = "Err" THEN Err
    ELSE collect_entry(entry.value,
             parse_contiguous(
                 Suffix(rem, 22 + Patch_NUM_BYTES * Len(entry.value.patches)),
                 count - 1))

parse_contiguous(rem, count) ==
    IF count <= 0 THEN Ok(<<>>)
    ELSE then_contiguous(rem, count, TexEntry_parse(rem))

\* Ok(Self { num_textures, offsets, textures }), or what ended the parsing
\* of the entries
TexturesLump(num_textures, offsets, textures) ==
    IF textures.tag # "Ok" THEN textures
    ELSE Ok([num_textures |-> num_textures,
             offsets      |-> offsets,
             textures     |-> textures.value])

entries_contiguous(num_textures, offsets) ==
    IF offsets.res.tag = "Err" THEN Err
    ELSE TexturesLump(num_textures, offsets.res.value,
             parse_contiguous(offsets.rest, Len(offsets.res.value)))

table_contiguous(num_textures) ==
    IF num_textures.res.tag = "Err" THEN Err
    ELSE entries_contiguous(num_textures.res.value,
             read_offsets(num_textures.rest, num_textures.res.value))

TexturesLump_parse_contiguous(d) == table_contiguous(read_i32(LumpParser_new(d)))

\* the entries at the offsets of the table, each sliced from the whole lump
entries_at_offsets(d, num_textures, offsets) ==
    IF offsets.res.tag = "Err" THEN Err
    ELSE TexturesLump(num_textures, offsets.res.value,
             parse_entries(d, offsets.res.value, 1))

\* the offset table: num_textures little-endian i32 after the count
offset_table(d, num_textures) ==
    IF num_textures.res.tag = "Err" THEN Err
    ELSE entries_at_offsets(d, num_textures.res.value,
             read_offsets(num_textures.rest, num_textures.res.value))

TexturesLump_parse(d) == offset_table(d, read_i32(LumpParser_new(d)))

----------------------------------------------------------------------------
(* The container (lib.rs).  The storage is a sequence of bytes and a        *)
(* position shared by every user of the file handle.                       *)

WadHeader_SIZE_BYTES == 12
WadDirectoryEntry_SIZE_BYTES == 16

IWAD == <<73, 87, 65, 68>>
PWAD == <<80, 87, 65, 68>>

\* file.seek(SeekFrom::Start(x as u64)) of an i32 x: a negative x becomes
\* an offset above i64::MAX, which the operating system rejects; any other
\* offset, also one past the end of the file, is accepted.
file_seek(x) == IF x < 0 THEN Err ELSE Ok(x)

\* file.read_exact(buf) at position pos into a buffer holding `old`: Ok
\* when the file has Len(old) bytes from pos on (an empty buffer needs
\* none); otherwise Err, with the bytes that were there copied and the
\* position at the end of what was read.
file_read_exact(f, pos, old) ==
    LET n == Len(old)
        avail == Max(Len(f) - pos, 0)
    IN  IF n <= avail
        THEN [res |-> Ok(<<>>), buf |-> SubSeq(f, pos + 1, pos + n), pos |-> pos + n]
        ELSE [res |-> Err,
              buf |-> SubSeq(f, pos + 1, pos + avail) \o SubSeq(old, avail + 1, n),
              pos |-> pos + avail]

WadType_new(tag) ==
    IF tag = IWAD THEN Ok("IWAD")
    ELSE IF tag = PWAD THEN Ok("PWAD")
    ELSE Err

WadHeader_new(b) ==
    LET type == WadType_new(SubSeq(b, 1, 4))
    IN  IF type.tag = "Err" THEN Err
        ELSE Ok([iwad_or_pwad           |-> type.value,
                 num_lumps              |-> i32_from_le_bytes(SubSeq(b, 5, 8)),
                 directory_offset_bytes |-> i32_from_le_bytes(SubSeq(b, 9, 12))])

\* WadString::new(..).unwrap(): a non-ASCII name panics
WadDirectoryEntry_new(b) ==
    LET lump_name == WadString_new(SubSeq(b, 9, 16))
    IN  IF lump_name.tag = "Err" THEN Panic
        ELSE Ok([offset_bytes |-> i32_from_le_bytes(SubSeq(b, 1, 4)),
                 size_bytes   |-> i32_from_le_bytes(SubSeq(b, 5, 8)),
                 lump_name    |-> lump_name.value])

\* directory_buf.chunks(16).map(WadDirectoryEntry::new).collect(), from the
\* i-th chunk on
RECURSIVE directory_entries(_, _)
directory_entries(buf, i) ==
    IF WadDirectoryEntry_SIZE_BYTES * (i - 1) >= Len(buf) THEN Ok(<<>>)
    ELSE LET entry == WadDirectoryEntry_new(
                        SubSeq(buf, WadDirectoryEntry_SIZE_BYTES * (i - 1) + 1,
                               WadDirectoryEntry_SIZE_BYTES * i))
         IN  IF entry.tag # "Ok" THEN entry
             ELSE LET more == directory_entries(buf, i + 1)
                  IN  IF more.tag = "Ok" THEN Ok(<<entry.value>> \o more.value)
                      ELSE more

\* Wad::new: [res: the Result or Panic, pos: the file position it leaves].
\* `num_lumps as usize * 16` of a negative num_lumps overflows (a panic in
\* a debug build) or wraps to a size above isize::MAX (a capacity-overflow
\* panic in vec!); the model's inputs keep a positive num_lumps small
\* enough for the directory buffer to be allocated.
Wad_new(f) ==
    LET header_buf == file_read_exact(f, 0, [i \in 1..WadHeader_SIZE_BYTES |-> 0])
    IN  IF header_buf.res.tag = "Err" THEN [res |-> Err, pos |-> header_buf.pos] ELSE
    LET header == WadHeader_new(header_buf.buf)
    IN  IF header.tag = "Err" THEN [res |-> Err, pos |-> header_buf.pos] ELSE
        IF header.value.num_lumps < 0 THEN [res |-> Panic, pos |-> header_buf.pos] ELSE
    LET sought == file_seek(header.value.directory_offset_bytes)
    IN  IF sought.tag = "Err" THEN [res |-> Err, pos |-> header_buf.pos] ELSE
    LET directory_buf ==
            file_read_exact(f, sought.value,
                [i \in 1..(header.value.num_lumps * WadDirectoryEntry_SIZE_BYTES) |-> 0])
    IN  IF directory_buf.res.tag = "Err" THEN [res |-> Err, pos |-> directory_buf.pos] ELSE
    LET directory == directory_entries(directory_buf.buf, 1)
    IN  IF directory.tag # "Ok" THEN [res |-> directory, pos |-> directory_buf.pos] ELSE
        [res |-> Ok([header |-> header.value, directory |-> directory.value]),
         pos |-> directory_buf.pos]

\* is_virtual
is_virtual(entry) == entry.size_bytes = 0

\* assert!(buf.len() == self.size_bytes as usize): a negative size_bytes
\* becomes a usize no buffer has
read_lump_assert(entry, buf) ==
    entry.size_bytes >= 0 /\ Len(buf) = entry.size_bytes

\* a plausible slip: the seek is forgotten and the read starts wherever the
\* shared position is
read_lump_no_seek(entry, pos) == Ok(pos)

\* file.seek(SeekFrom::Start(self.offset_bytes as u64))?
read_lump_seek(entry, pos) == file_seek(entry.offset_bytes)

----------------------------------------------------------------------------
(* Inputs of the decoders *)

MaxSlack == 2        \* colormap inputs of 8704 - MaxSlack .. 8704 + MaxSlack bytes
MaxNames == 2        \* name tables with room for up to MaxNames names

I32_MAX == 2147483647
I32_MIN == -I32_MAX - 1

\* i32::to_le_bytes, the inverse of i32_from_le_bytes
i32_to_le_bytes(x) ==
    LET y == IF x < 0 THEN -(x + 1) ELSE x
        byte(k) == (y \div k) % 256
        flip(v) == IF x < 0 THEN 255 - v ELSE v
    IN  <<flip(byte(1)), flip(byte(256)), flip(byte(65536)), flip(byte(16777216))>>

\* i16::to_le_bytes
i16_to_le_bytes(x) ==
    LET y == IF x < 0 THEN -(x + 1) ELSE x
        flip(v) == IF x < 0 THEN 255 - v ELSE v
    IN  <<flip(y % 256), flip((y \div 256) % 256)>>

\* a buffer of len bytes whose i-th byte depends on its position
Ramp(len, step, shift) == [i \in 1..len |-> (i * step + shift) % 251]

ColormapLengths ==
    LET exact == ColormapLump_NUM_MAPS * Palette_NUM_COLORS
    IN  {0, 1, Palette_NUM_COLORS, exact - Palette_NUM_COLORS,
         exact + Palette_NUM_COLORS}
            \cup ((exact - MaxSlack)..(exact + MaxSlack))

\* a name table: the count field, then a body of ASCII bytes that depend on
\* their position, with the byte at badAt (if any) replaced by badVal; the
\* whole cut to len bytes.
NameTable(count, len, badAt, badVal) ==
    LET body == [i \in 1..(8 * MaxNames + 1) |->
                    IF i = badAt THEN badVal ELSE (i * 7) % 128]
    IN  SubSeq(i32_to_le_bytes(count) \o body, 1, len)

MaxTextures == 2     \* offset tables of up to MaxTextures entries
TailSamples == {-1, 0, 1}

\* A texture lump: the count field N, a table of Len(keys) offsets, and two
\* records with M1 and M2 declared patches.  The second record starts `gap`
\* bytes after the first one's header, so that with gap = 0 and M1 > 0 it
\* overlaps the first one's patches.  `tail` bytes follow the second record
\* (tail = -1 cuts its last byte off).  A table entry is given as a key:
\* "neg" (-1), "rec1"/"rec2" (the start of a record), "last" (the last byte),
\* "len" (the lump length), "past" (one more).  Every byte that is no count,
\* offset or patch-count field depends on its position; `bad` puts a
\* non-ASCII byte into the name of a record.
TextureLump(N, keys, M1, M2, gap, tail, bad) ==
    LET table == 4 + 4 * Len(keys)
        rec1  == table
        rec2  == rec1 + 22 + gap
        len   == rec2 + 22 + 10 * Max(M2, 0) + tail
        off(key) == CASE key = "neg"  -> -1
                      [] key = "rec1" -> rec1
                      [] key = "rec2" -> rec2
                      [] key = "last" -> len - 1
                      [] key = "len"  -> len
                      [] key = "past" -> len + 1
        byteAt(p) ==
            IF p < 4 THEN i32_to_le_bytes(N)[p + 1]
            ELSE IF p < table
                 THEN i32_to_le_bytes(off(keys[(p \div 4)]))[(p % 4) + 1]
            ELSE IF p \in {rec1 + 20, rec1 + 21}
                 THEN i16_to_le_bytes(M1)[p - rec1 - 19]
            ELSE IF p \in {rec2 + 20, rec2 + 21}
                 THEN i16_to_le_bytes(M2)[p - rec2 - 19]
            ELSE IF (bad = "rec1" /\ p = rec1 + 7) \/ (bad = "rec2" /\ p = rec2)
                 THEN 128
            ELSE (p * 7) % 128
    IN  [i \in 1..len |-> byteAt(i - 1)]

TableKeys == {"neg", "rec1", "rec2", "last", "len", "past"}
PatchCounts == {-1, 0, 1}

MaxLumps == 2        \* files with room for up to MaxLumps directory entries
MaxBuf == 3          \* longest buffer handed to read_lump

ZWAD == <<90, 87, 65, 68>>

\* A WAD file: the header (tag, num_lumps, directory offset), 4 bytes of
\* lump data and a directory of Len(entries) entries, the whole cut to len
\* bytes.  An entry is <<offset key, size>>; an offset or the directory
\* offset is given as a key: "neg" (-1), "hdr" (0), "lump" (12, the lump
\* data), "mid" (14), "dir" (16, the directory), "last" (the last byte of
\* the uncut file), "len" (its length), "past" (one more).  `bad` is the
\* index of the entry whose name gets a non-ASCII byte, or 0.
WadFile(tag, num_lumps, dirKey, entries, len, bad) ==
    LET full == 16 + 16 * Len(entries)
        off(key) == CASE key = "neg"  -> -1
                      [] key = "hdr"  -> 0
                      [] key = "lump" -> 12
                      [] key = "mid"  -> 14
                      [] key = "dir"  -> 16
                      [] key = "last" -> full - 1
                      [] key = "len"  -> full
                      [] key = "past" -> full + 1
        byteAt(p) ==
            IF p < 4 THEN tag[p + 1]
            ELSE IF p < 8 THEN i32_to_le_bytes(num_lumps)[p - 3]
            ELSE IF p < 12 THEN i32_to_le_bytes(off(dirKey))[p - 7]
            ELSE IF p < 16 THEN 200 + p
            ELSE LET j == ((p - 16) \div 16) + 1
                     q == (p - 16) % 16
                 IN  IF q < 4 THEN i32_to_le_bytes(off(entries[j][1]))[q + 1]
                     ELSE IF q < 8 THEN i32_to_le_bytes(entries[j][2])[q - 3]
                     ELSE IF j = bad /\ q = 15 THEN 128
                     ELSE 65 + ((p * 3) % 26)
    IN  [i \in 1..Min(len, full) |-> byteAt(i - 1)]

\* one entry of every kind: two lumps, a lump that runs past the end of the
\* file, a negative offset, two virtual entries and a negative size
Catalogue ==
    << <<"lump", 2>>, <<"mid", 2>>, <<"last", 2>>, <<"neg", 2>>,
       <<"lump", 0>>, <<"past", 0>>, <<"lump", -1>> >>

----------------------------------------------------------------------------
(* ColormapLump::parse applied to a buffer *)

ColormapParse ==
    /\ result = None
    /\ result' = ColormapLump_parse(data)
    /\ UNCHANGED <<data, parserVars, stringVars, wadVars>>

InitColormap ==
    /\ \E len \in ColormapLengths, step \in {1, 3, 7, 255}, shift \in {0, 5} :
            data = Ramp(len, step, shift)
    /\ result = None
    /\ IdleParser /\ IdleString /\ IdleWad

NextColormap == ColormapParse

SpecColormap == InitColormap /\ [][NextColormap]_vars

\* C8: ColormapLump::parse succeeds exactly on inputs of 8704 bytes, and
\* then map k (0 <= k < 34) is the input bytes [256k, 256k + 256) in order;
\* every other length yields an error (not a panic).
C8_ColormapExactLength ==
    result # None =>
        /\ result.tag \in {"Ok", "Err"}
        /\ result.tag = "Ok" <=> Len(data) = 8704
        /\ result.tag = "Ok" =>
            /\ Len(result.value.maps) = 34
            /\ \A k \in 0..33 :
                /\ Len(result.value.maps[k + 1]) = 256
                /\ \A j \in 0..255 :
                    result.value.maps[k + 1][j + 1] = data[256 * k + j + 1]

\* a colormap decoded from exactly 8704 bytes
C8_Witness ==
    /\ result.tag = "Ok"
    /\ Len(data) = 8704
    /\ result.value.maps[34][256] = data[8704]
    /\ result.value.maps[2][1] # result.value.maps[1][1]

----------------------------------------------------------------------------
(* PnamesLump::parse applied to a buffer *)

PnamesParse ==
    /\ result = None
    /\ result' = PnamesLump_parse(data)
    /\ UNCHANGED <<data, parserVars, stringVars, wadVars>>

InitPnames ==
    /\ \E count \in {I32_MIN, -1, I32_MAX} \cup 0..(MaxNames + 1),
          len \in 0..(4 + 8 * MaxNames + 1),
          badAt \in 0..(8 * MaxNames + 1),
          badVal \in {128, 255} :
            data = NameTable(count, len, badAt, badVal)
    /\ result = None
    /\ IdleParser /\ IdleString /\ IdleWad

NextPnames == PnamesParse

SpecPnames == InitPnames /\ [][NextPnames]_vars

\* the count field of a buffer of at least 4 bytes
CountField(d) == i32_from_le_bytes(SubSeq(d, 1, 4))

\* the buffer is the count field followed by exactly n names of ASCII bytes
ExactNameTable(d, n) ==
    /\ Len(d) >= 4
    /\ (Len(d) - 4) % 8 = 0
    /\ (Len(d) - 4) \div 8 = n
    /\ \A i \in 5..Len(d) : d[i] <= 127

\* the k-th name of the buffer, k counted from 1
NameAt(d, k) == SubSeq(d, 4 + 8 * (k - 1) + 1, 4 + 8 * k)

\* C6 as stated: the parse succeeds exactly when the input is 4 + 8*count
\* bytes long with every name byte <= 127, and then holds exactly count
\* names in input order.
C6_AsStated ==
    result # None =>
        /\ result.tag = "Ok" <=> (Len(data) >= 4 /\ ExactNameTable(data, CountField(data)))
        /\ result.tag = "Ok" =>
            /\ Len(result.value.pnames) = CountField(data)
            /\ \A k \in 1..Len(result.value.pnames) :
                result.value.pnames[k].bytes = NameAt(data, k)

\* C6 amended: with n = max(count, 0), the parse returns Ok exactly when
\* the input is 4 + 8*n bytes long with every name byte <= 127, and then
\* holds exactly n names in input order; otherwise it returns Err.
C6_PnamesExactLength ==
    result # None =>
        /\ result.tag \in {"Ok", "Err"}
        /\ result.tag = "Ok" <=>
            (Len(data) >= 4 /\ ExactNameTable(data, Max(CountField(data), 0)))
        /\ result.tag = "Ok" =>
            /\ Len(result.value.pnames) = Max(CountField(data), 0)
            /\ \A k \in 1..Len(result.value.pnames) :
                result.value.pnames[k].bytes = NameAt(data, k)

\* a table of two names, decoded
C6_Witness ==
    /\ result.tag = "Ok"
    /\ CountField(data) = 2
    /\ Len(result.value.pnames) = 2
    /\ result.value.pnames[1] # result.value.pnames[2]

----------------------------------------------------------------------------
(* TexturesLump::parse applied to a buffer *)

TexturesParse ==
    /\ result = None
    /\ result' = TexturesLump_parse(data)
    /\ UNCHANGED <<data, parserVars, stringVars, wadVars>>

InitTextures ==
    /\ \E N \in {I32_MIN, -1} \cup 0..(MaxTextures + 1),
          keys \in SeqsUpTo(TableKeys, MaxTextures),
          M1 \in PatchCounts, M2 \in PatchCounts,
          gap \in {0, Patch_NUM_BYTES},
          tail \in TailSamples,
          bad \in {"none", "rec1", "rec2"} :
            data = TextureLump(N, keys, M1, M2, gap, tail, bad)
    /\ result = None
    /\ IdleParser /\ IdleString /\ IdleWad

NextTextures == TexturesParse

SpecTextures == InitTextures /\ [][NextTextures]_vars

\* What the lump's bytes say, read by position (p counted from 0)
I16At(d, p) == i16_from_le_bytes(SubSeq(d, p + 1, p + 2))
I32At(d, p) == i32_from_le_bytes(SubSeq(d, p + 1, p + 4))

\* the number of entries of the offset table
TableLen(d) == Max(CountField(d), 0)

\* the count field and the whole offset table lie inside the buffer
TableReadable(d) ==
    /\ Len(d) >= 4
    /\ TableLen(d) <= (Len(d) - 4) \div 4

\* the i-th entry of the offset table, i counted from 1
TableEntry(d, i) == I32At(d, 4 * i)

\* the record at offset o lies inside the buffer, header and patches
RecordFits(d, o) ==
    /\ o >= 0
    /\ o <= Len(d) - 22
    /\ 10 * Max(I16At(d, o + 20), 0) <= Len(d) - 22 - o

\* one byte past the record at offset o
RecordEnd(d, o) == o + 22 + 10 * Max(I16At(d, o + 20), 0)

\* the name field of the record at offset o, through the constructor
NameOf(d, o) == WadString_from_bytes(SubSeq(d, o + 1, o + 8))

PatchAt(d, p) ==
    [x_offset    |-> I16At(d, p),
     y_offset    |-> I16At(d, p + 2),
     pname_index |-> I16At(d, p + 4),
     stepdir     |-> I16At(d, p + 6),
     colormap    |-> I16At(d, p + 8)]

\* the record a fresh cursor at offset o decodes
RecordAt(d, o) ==
    [name            |-> NameOf(d, o).value,
     masked          |-> I32At(d, o + 8),
     tex_width       |-> I16At(d, o + 12),
     tex_height      |-> I16At(d, o + 14),
     columndirectory |-> I32At(d, o + 16),
     num_patches     |-> I16At(d, o + 20),
     patches         |-> [j \in 1..Max(I16At(d, o + 20), 0) |->
                             PatchAt(d, o + 22 + 10 * (j - 1))]]

\* C1 as stated: the parse never panics, and when an entry of the offset
\* table is negative, equal to or greater than the lump length, or
\* addresses a record that extends past the end of the buffer, the whole
\* parse returns Err.
C1_AsStated ==
    result # None =>
        /\ result.tag # "Panic"
        /\ (/\ TableReadable(data)
            /\ \E i \in 1..TableLen(data) : ~RecordFits(data, TableEntry(data, i)))
           => result.tag = "Err"

\* C5: the parse succeeds exactly when the table is readable and every
\* entry, taken alone, addresses a record that lies inside the buffer and
\* whose name the constructor accepts; the i-th texture is then the record
\* a fresh cursor at offsets[i] decodes, whatever the order of the offsets,
\* their overlaps and the bytes after the records.
C5_RecordsIndependent ==
    result # None =>
        /\ result.tag = "Ok" <=>
            /\ TableReadable(data)
            /\ \A i \in 1..TableLen(data) :
                /\ RecordFits(data, TableEntry(data, i))
                /\ NameOf(data, TableEntry(data, i)).tag = "Ok"
        /\ result.tag = "Ok" =>
            /\ Len(result.value.textures) = Len(result.value.offsets)
            /\ \A i \in 1..Len(result.value.offsets) :
                /\ result.value.offsets[i] = TableEntry(data, i)
                /\ result.value.textures[i] = RecordAt(data, result.value.offsets[i])

\* two textures decoded from decreasing offsets whose records overlap, with
\* a byte left after the last record
C5_Witness ==
    /\ result.tag = "Ok"
    /\ Len(result.value.textures) = 2
    /\ LET o1 == result.value.offsets[1]
           o2 == result.value.offsets[2]
       IN  /\ o2 < o1
           /\ o1 < RecordEnd(data, o2)
           /\ RecordEnd(data, o1) < Len(data)
           /\ RecordEnd(data, o2) < Len(data)
           /\ Len(result.value.textures[2].patches) = 1

\* C10 as stated: whenever the parse returns Ok, num_textures, the number
\* of offsets and the number of textures agree, and every texture's
\* num_patches is the number of its patches, negative counts included.
C10_AsStated ==
    result.tag = "Ok" =>
        /\ result.value.num_textures = Len(result.value.offsets)
        /\ Len(result.value.offsets) = Len(result.value.textures)
        /\ \A i \in 1..Len(result.value.textures) :
            result.value.textures[i].num_patches
                = Len(result.value.textures[i].patches)

\* C10 amended: whenever the parse returns Ok, the number of offsets and
\* the number of textures both equal max(num_textures, 0), and every
\* texture has max(num_patches, 0) patches: a declared count agrees with
\* the decoded length when it is not negative, and a negative count is
\* kept as declared with an empty list.
C10_CountsClamped ==
    result.tag = "Ok" =>
        /\ Len(result.value.offsets) = Max(result.value.num_textures, 0)
        /\ Len(result.value.textures) = Max(result.value.num_textures, 0)
        /\ \A i \in 1..Len(result.value.textures) :
            Len(result.value.textures[i].patches)
                = Max(result.value.textures[i].num_patches, 0)

\* a lump of two textures, one with a patch and one with a negative count
C10_Witness ==
    /\ result.tag = "Ok"
    /\ result.value.num_textures = 2
    /\ result.value.textures[1].num_patches = 1
    /\ Len(result.value.textures[1].patches) = 1
    /\ result.value.textures[2].num_patches = -1
    /\ result.value.textures[2].patches = <<>>

----------------------------------------------------------------------------
(* Wad::new applied to a file *)

WadNew ==
    /\ wad = None
    /\ LET r == Wad_new(file)
       IN  /\ wad' = r.res
           /\ filepos' = r.pos
    /\ UNCHANGED <<file, calls, sync, lock, parserVars, stringVars, lumpVars>>

InitOpen ==
    /\ \E tag \in {IWAD, PWAD, ZWAD},
          num_lumps \in {I32_MIN, -1} \cup 0..(MaxLumps + 1),
          dirKey \in {"neg", "hdr", "lump", "dir", "len", "past"},
          len \in 0..(16 + 16 * MaxLumps),
          bad \in 0..MaxLumps :
            file = WadFile(tag, num_lumps, dirKey,
                           [j \in 1..MaxLumps |-> <<"lump", j>>], len, bad)
    /\ filepos = 0
    /\ wad = None
    /\ calls = <<>>
    /\ sync = FALSE
    /\ lock = 0
    /\ IdleParser /\ IdleString /\ IdleLump

NextOpen == WadNew

SpecOpen == InitOpen /\ [][NextOpen]_vars

\* What the file's bytes say, read by position
HeaderReadable(f) == Len(f) >= 12
TagKnown(f) == SubSeq(f, 1, 4) \in {IWAD, PWAD}
NumLumps(f) == I32At(f, 4)
DirOffset(f) == I32At(f, 8)

\* num_lumps directory entries lie inside the file at the directory offset
DirectoryReadable(f) ==
    /\ DirOffset(f) >= 0
    /\ NumLumps(f) >= 0
    /\ \/ NumLumps(f) = 0
       \/ /\ DirOffset(f) <= Len(f)
          /\ NumLumps(f) <= (Len(f) - DirOffset(f)) \div 16

\* the i-th directory entry on disk, i counted from 1
EntryOnDisk(f, i) ==
    LET p == DirOffset(f) + 16 * (i - 1)
    IN  [offset_bytes |-> I32At(f, p),
         size_bytes   |-> I32At(f, p + 4),
         lump_name    |-> [bytes |-> SubSeq(f, p + 9, p + 16)]]

\* C2 as stated: Wad::new returns Err or a Wad whose directory has exactly
\* num_lumps entries in on-disk order, never a panic; an unrecognized tag,
\* a header shorter than 12 bytes, a directory with fewer than num_lumps*16
\* readable bytes at the directory offset, a negative num_lumps or
\* directory offset, and a directory entry whose name has a byte > 127 are
\* each reported as Err.
C2_AsStated ==
    wad # None =>
        /\ wad.tag \in {"Ok", "Err"}
        /\ wad.tag = "Ok" =>
            /\ Len(wad.value.directory) = wad.value.header.num_lumps
            /\ \A i \in 1..Len(wad.value.directory) :
                wad.value.directory[i] = EntryOnDisk(file, i)
        /\ (\/ ~HeaderReadable(file)
            \/ ~TagKnown(file)
            \/ ~DirectoryReadable(file)
            \/ \E i \in 1..NumLumps(file) :
                \E j \in 1..8 : EntryOnDisk(file, i).lump_name.bytes[j] > 127)
           => wad.tag = "Err"

----------------------------------------------------------------------------
(* read_lump on an opened Wad, by two callers that share the file handle.  *)
(* A call is two steps on the shared position: the assertion and the seek, *)
(* then the read.  With sync, a caller holds a lock over both steps.       *)

Callers == {1, 2}

NoCall == [pc |-> "idle", entry |-> 0, given |-> <<>>, buf |-> <<>>,
           res |-> None, sought |-> FALSE, interleaved |-> FALSE]

\* the first step of read_lump(buf, wadfile) on directory entry e with a
\* buffer of n bytes: a failed assertion panics before the file is touched,
\* a failed seek returns Err
ReadLumpSeek(c) ==
    \E e \in 1..Len(wad.value.directory), n \in 0..MaxBuf :
        LET entry == wad.value.directory[e]
            buf == [i \in 1..n |-> 170]
            call == [NoCall EXCEPT !.entry = e, !.given = buf, !.buf = buf]
            sought == read_lump_seek(entry, filepos)
        IN  /\ calls[c].pc = "idle"
            /\ sync => lock = 0
            /\ IF ~read_lump_assert(entry, buf)
               THEN /\ calls' = [calls EXCEPT ![c] =
                            [call EXCEPT !.pc = "panicked", !.res = Panic]]
                    /\ UNCHANGED <<filepos, lock>>
               ELSE IF sought.tag = "Err"
               THEN /\ calls' = [calls EXCEPT ![c] =
                            [call EXCEPT !.pc = "done", !.res = Err]]
                    /\ UNCHANGED <<filepos, lock>>
               ELSE /\ filepos' = sought.value
                    /\ lock' = IF sync THEN c ELSE 0
                    /\ calls' = [d \in Callers |->
                            IF d = c
                            THEN [call EXCEPT !.pc = "seeked", !.sought = TRUE]
                            ELSE IF calls[d].pc = "seeked"
                            THEN [calls[d] EXCEPT !.interleaved = TRUE]
                            ELSE calls[d]]
            /\ UNCHANGED <<file, wad, sync, parserVars, stringVars, lumpVars>>

\* the second step: file.read_exact(buf)? at the shared position
ReadLumpRead(c) ==
    /\ calls[c].pc = "seeked"
    /\ LET r == file_read_exact(file, filepos, calls[c].buf)
       IN  /\ calls' = [d \in Callers |->
                    IF d = c
                    THEN [calls[c] EXCEPT !.pc = "done", !.buf = r.buf, !.res = r.res]
                    ELSE IF calls[d].pc = "seeked"
                    THEN [calls[d] EXCEPT !.interleaved = TRUE]
                    ELSE calls[d]]
           /\ filepos' = r.pos
    /\ lock' = 0
    /\ UNCHANGED <<file, wad, sync, parserVars, stringVars, lumpVars>>

InitWad ==
    /\ file = WadFile(PWAD, Len(Catalogue), "dir", Catalogue,
                      16 + 16 * Len(Catalogue), 0)
    /\ LET r == Wad_new(file)
       IN  /\ wad = r.res
           /\ filepos = r.pos
    /\ calls = [c \in Callers |-> NoCall]
    /\ sync \in BOOLEAN
    /\ lock = 0
    /\ IdleParser /\ IdleString /\ IdleLump

NextWad ==
    \/ \E c \in Callers : ReadLumpSeek(c)
    \/ \E c \in Callers : ReadLumpRead(c)

SpecWad == InitWad /\ [][NextWad]_vars

\* the directory entry a call is about
EntryOf(call) == wad.value.directory[call.entry]

\* the storage holds the entry's size_bytes bytes from its offset_bytes on
LumpReadable(entry) ==
    /\ entry.offset_bytes >= 0
    /\ \/ entry.size_bytes = 0
       \/ /\ entry.offset_bytes <= Len(file)
          /\ entry.size_bytes <= Len(file) - entry.offset_bytes

\* the size_bytes bytes of storage from offset_bytes on
LumpBytes(entry) ==
    SubSeq(file, entry.offset_bytes + 1, entry.offset_bytes + entry.size_bytes)

\* the call returned what its own entry addresses
RightResult(call) ==
    /\ call.res.tag = "Ok" <=> LumpReadable(EntryOf(call))
    /\ call.res.tag = "Ok" => call.buf = LumpBytes(EntryOf(call))

\* C3 as stated: a call with a buffer whose length differs from size_bytes
\* returns an error and leaves the buffer and the file position untouched;
\* a call with a buffer of size_bytes bytes (its two steps not interleaved
\* with another call's) fills it with the bytes at offset_bytes or returns
\* an error when the storage ends before that.
C3_AsStated ==
    \A c \in Callers :
        calls[c].pc \in {"done", "panicked"} =>
            IF Len(calls[c].given) # EntryOf(calls[c]).size_bytes
            THEN /\ calls[c].res.tag = "Err"
                 /\ calls[c].buf = calls[c].given
                 /\ ~calls[c].sought
            ELSE sync => /\ calls[c].res.tag \in {"Ok", "Err"}
                         /\ RightResult(calls[c])

\* C7: a read_lump that completes under external serialisation returns
\* what its own entry addresses; a completed call that does not (Ok with
\* other bytes, or an error although its lump is readable) ran unserialised
\* and a step of another call fell between its seek and its read.
C7_SeekReadNotAtomic ==
    \A c \in Callers :
        /\ sync /\ calls[c].pc = "seeked" => lock = c /\ ~calls[c].interleaved
        /\ calls[c].pc = "done" =>
            /\ sync => RightResult(calls[c])
            /\ ~RightResult(calls[c]) => ~sync /\ calls[c].interleaved

\* seek of call 1, seek of call 2, read of call 1: call 1 returns Ok with
\* bytes that do not start at its offset
C7_Witness ==
    /\ ~sync
    /\ calls[1].pc = "done"
    /\ calls[1].res.tag = "Ok"
    /\ calls[1].interleaved
    /\ calls[2].pc = "seeked"
    /\ Len(calls[1].buf) = 2
    /\ calls[1].buf # LumpBytes(EntryOf(calls[1]))
    /\ calls[1].buf = LumpBytes(EntryOf(calls[2]))

============================================================================
